---- MODULE Spec2Model ----
(***************************************************************************)
(* Model of the DAO governance contract of                                 *)
(* contracts/hello-world/src/lib.rs (DAOContract).                         *)
(*                                                                         *)
(* Every public function of the contract is one action: the host runs a    *)
(* contract call as one transaction, and a call that traps (a panic of the *)
(* token client) is rolled back as a whole.  The instance storage is the   *)
(* five variables tokenConfig, proposalCount, proposals, votes and         *)
(* lockedTokens, one per DataKey variant; a singleton key is a sequence    *)
(* that is empty while the key is absent.  The token ledger is the         *)
(* contract deployed at TokenAddr; a token client built on any other       *)
(* address traps on its first call.  Callers are taken to have signed      *)
(* for the address they pass (require_auth succeeds).                      *)
(***************************************************************************)
EXTENDS Integers, Sequences, FiniteSets, TLC

VARIABLES
    tokenConfig,    \* DataKey::TokenConfig: << >> or <<[total_supply, admin]>>
    proposalCount,  \* DataKey::ProposalCount: << >> or <<n>>
    proposals,      \* DataKey::Proposal(id): function id -> Proposal
    votes,          \* DataKey::Vote(id, voter): function <<id, voter>> -> Vote
    lockedTokens,   \* DataKey::LockedTokens(voter): function voter -> amount
    balances,       \* the token ledger at TokenAddr: account -> balance
    now,            \* env.ledger().timestamp()
    issued,         \* history: ids returned by successful create_proposal, in order
    castSince,      \* history: voter -> sum of successful vote amounts since that voter's last unlock_tokens
    votedPairs,     \* history: <<voter, id>> pairs of successful vote calls
    tallied,        \* history: ids on which a tally_proposal has succeeded
    granted,        \* history: member -> the amount initialise transferred to that member
    calls,          \* history: the number of calls so far that changed the contract's state
    tallyOut        \* history: id -> the booleans successful tally_proposal calls returned

contractState == <<tokenConfig, proposalCount, proposals, votes, lockedTokens, balances>>
history == <<issued, castSince, votedPairs, tallied, tallyOut, granted>>
vars == <<tokenConfig, proposalCount, proposals, votes, lockedTokens, balances,
          now, issued, castSince, votedPairs, tallied, tallyOut, granted, calls>>

-----------------------------------------------------------------------------
(* Bounds of the model *)

MaxTime == 2
MaxProposals == 2
MaxCalls == 5

-----------------------------------------------------------------------------
(* Program constants *)

TokensPerMember == 100
TokenUnit == 100000
QuorumPercent == 51

\* the amount handed to each member: the literal 100 * 100000 of initialise
MemberGrant == TokensPerMember * TokenUnit

-----------------------------------------------------------------------------
(* Addresses and inputs *)

DaoAddr == "dao"       \* env.current_contract_address()
TokenAddr == "tok"     \* the address the token contract is deployed at
AdminAcct == "adm"     \* an administrator account that is not a contract

Members == {"m1", "m2", "m3"}
Addresses == Members \cup {DaoAddr, TokenAddr, AdminAcct}

\* what the administrator holds before initialise distributes it
Treasury == 3 * MemberGrant

AdminChoices == {AdminAcct, TokenAddr}
TokenIdChoices == {TokenAddr}

\* initialise: admin, members, token_id
MemberLists == {<<"m1", "m2">>, <<"m1", "m2", "m3">>}
InitInputs == {<<a, m, t>> : a \in AdminChoices, m \in MemberLists, t \in TokenIdChoices}
\* create_proposal: creator, title, description, deadline
CreateInputs == {<<"m3", "T1", "D1", 1>>, <<"m1", "T2", "D2", 3>>}
\* vote: voter, is_yes, amount
Amounts == {0, 40 * TokenUnit, 60 * TokenUnit}
VoteInputs == {"m1", "m2"} \X BOOLEAN \X Amounts

\* the calls of test.rs, amounts in tokens of TokenUnit: setup() names three
\* members, members[0] creates, members[1] and members[2] vote
TestInitInputs == {<<a, <<"m1", "m2", "m3">>, t>> : a \in AdminChoices, t \in TokenIdChoices}
TestCreateInputs == {<<"m1", "Funding Initiative", "Fund new project", 1>>}
TestVoteInputs == {<<"m2", TRUE, 50 * TokenUnit>>, <<"m2", TRUE, 60 * TokenUnit>>,
                   <<"m2", TRUE, 100 * TokenUnit>>,
                   <<"m3", FALSE, 30 * TokenUnit>>, <<"m3", FALSE, 40 * TokenUnit>>}

AllCreateInputs == CreateInputs \cup TestCreateInputs
AllVoteInputs == VoteInputs \cup TestVoteInputs
ProposalIds == 1 .. MaxProposals

-----------------------------------------------------------------------------
(* Storage helpers *)

Has(key) == key # << >>
UnwrapOr(key, default) == IF key # << >> THEN key[1] ELSE default

\* f with key k set to v (storage().instance().set)
Put(f, k, v) == [x \in DOMAIN f \cup {k} |-> IF x = k THEN v ELSE f[x]]
\* a remove that leaves the key in place
RemoveKeepsKey(f, k) == f

\* f without key k (storage().instance().remove)
Remove(f, k) == [x \in DOMAIN f \ {k} |-> f[x]]
Empty == [x \in {} |-> 0]

\* every call that changes the contract's state is counted, up to MaxCalls
Counted ==
    /\ calls' = IF contractState' # contractState THEN calls + 1 ELSE calls
    /\ calls' <= MaxCalls

-----------------------------------------------------------------------------
(* The token client *)

IsTokenContract(addr) == addr = TokenAddr

\* a transfer that credits the receiver without debiting the sender
TransferKeepsSender(bal, from, to, amount) ==
    IF bal[from] < amount THEN << >>
    ELSE <<[bal EXCEPT ![to] = @ + amount]>>

\* token_client.transfer: << >> when the ledger rejects it, else <<new ledger>>
Transfer(bal, from, to, amount) ==
    IF bal[from] < amount THEN << >>
    ELSE IF from = to THEN <<bal>>
    ELSE <<[bal EXCEPT ![from] = @ - amount, ![to] = @ + amount]>>

\* the loop of initialise: one grant per entry of members, in order
RECURSIVE Distribute(_, _, _)
Distribute(bal, admin, members) ==
    IF members = << >> THEN <<bal>>
    ELSE LET t == Transfer(bal, admin, Head(members), MemberGrant)
         IN  IF t = << >> THEN << >> ELSE Distribute(t[1], admin, Tail(members))

\* what the loop of initialise hands to one account
GrantedTo(account, members) ==
    MemberGrant * Cardinality({i \in 1 .. Len(members) : members[i] = account})

-----------------------------------------------------------------------------
(* How a call ends: "Ok", one of the DAOError kinds, or "HostError" when the *)
(* token client traps and the host rolls the transaction back.             *)

Errors == {"AlreadyInitialised", "NotInitialised", "InvalidProposal",
           "ProposalExpired", "AlreadyVoted", "InsufficientTokens",
           "VotingNotClosed", "InvalidVote"}

-----------------------------------------------------------------------------
(* initialise *)

\* the supply of one member, whatever the number of members
TotalSupplyOfOneMember(members) == TokensPerMember * TokenUnit

TotalSupplyOf(members) == Len(members) * TokensPerMember * TokenUnit

\* initialise without the check for a stored TokenConfig
InitialiseResultNoGuard(admin, members, token_id) ==
    IF ~IsTokenContract(token_id) THEN "HostError"
    ELSE IF Distribute(balances, admin, members) = << >> THEN "HostError"
    ELSE "Ok"

InitialiseResult(admin, members, token_id) ==
    IF Has(tokenConfig) THEN "AlreadyInitialised"
    ELSE IF ~IsTokenContract(token_id) THEN "HostError"
    ELSE IF Distribute(balances, admin, members) = << >> THEN "HostError"
    ELSE "Ok"

\* the proposal count reset before the check for an earlier initialise
InitialiseResetsCountFirst(admin, members, token_id) ==
    /\ proposalCount' = <<0>>
    /\ IF InitialiseResult(admin, members, token_id) = "Ok"
       THEN /\ tokenConfig' = <<[total_supply |-> TotalSupplyOf(members), admin |-> admin]>>
            /\ balances' = Distribute(balances, admin, members)[1]
            /\ granted' = [m \in Members |-> GrantedTo(m, members)]
       ELSE UNCHANGED <<tokenConfig, balances, granted>>
    /\ UNCHANGED <<proposals, votes, lockedTokens, now,
                   issued, castSince, votedPairs, tallied, tallyOut>>
    /\ Counted

Initialise(admin, members, token_id) ==
    /\ IF InitialiseResult(admin, members, token_id) = "Ok"
       THEN /\ tokenConfig' = <<[total_supply |-> TotalSupplyOf(members), admin |-> admin]>>
            /\ proposalCount' = <<0>>
            /\ balances' = Distribute(balances, admin, members)[1]
            /\ granted' = [m \in Members |-> GrantedTo(m, members)]
       ELSE UNCHANGED <<tokenConfig, proposalCount, balances, granted>>
    /\ UNCHANGED <<proposals, votes, lockedTokens, now,
                   issued, castSince, votedPairs, tallied, tallyOut>>
    /\ Counted

-----------------------------------------------------------------------------
(* create_proposal *)

NewProposal(new_id, creator, title, description, deadline) ==
    [id |-> new_id, title |-> title, description |-> description,
     deadline |-> deadline, yes_votes |-> 0, no_votes |-> 0,
     creator |-> creator, active |-> TRUE]

\* new_id: the stored count, or 0 when the key is absent, plus one
NextId == UnwrapOr(proposalCount, 0) + 1

\* a deadline equal to the current time accepted
CreateResultAllowsNow(deadline) ==
    IF deadline < now THEN "ProposalExpired" ELSE "Ok"

CreateResult(deadline) ==
    IF deadline <= now THEN "ProposalExpired" ELSE "Ok"

CreateProposal(creator, title, description, deadline) ==
    /\ NextId <= MaxProposals
    /\ IF CreateResult(deadline) = "Ok"
       THEN /\ proposals' = Put(proposals, NextId,
                                NewProposal(NextId, creator, title, description, deadline))
            /\ proposalCount' = <<NextId>>
            /\ issued' = Append(issued, NextId)
       ELSE UNCHANGED <<proposals, proposalCount, issued>>
    /\ UNCHANGED <<tokenConfig, votes, lockedTokens, balances, now,
                   castSince, votedPairs, tallied, tallyOut, granted>>
    /\ Counted

-----------------------------------------------------------------------------
(* get_proposal, list_proposals, balance, total_supply: they read and return *)

\* << >> for Err(InvalidProposal), else <<the stored record>>
get_proposal(proposal_id) ==
    IF proposal_id \in DOMAIN proposals THEN <<proposals[proposal_id]>> ELSE << >>

RECURSIVE ListFrom(_, _)
ListFrom(i, count) ==
    IF i > count THEN << >>
    ELSE get_proposal(i) \o ListFrom(i + 1, count)

list_proposals == ListFrom(1, UnwrapOr(proposalCount, 0))

BalanceResult ==
    IF ~Has(tokenConfig) THEN "NotInitialised"
    ELSE IF ~IsTokenContract(tokenConfig[1].admin) THEN "HostError"
    ELSE "Ok"

balance(account) == IF BalanceResult = "Ok" THEN <<balances[account]>> ELSE << >>

total_supply == IF Has(tokenConfig) THEN <<tokenConfig[1].total_supply>> ELSE << >>

GetProposal(proposal_id) ==
    /\ Len(get_proposal(proposal_id)) <= 1
    /\ UNCHANGED vars

ListProposals ==
    /\ Len(list_proposals) <= UnwrapOr(proposalCount, 0)
    /\ UNCHANGED vars

Balance(account) ==
    /\ Len(balance(account)) <= 1
    /\ UNCHANGED vars

TotalSupply ==
    /\ Len(total_supply) <= 1
    /\ UNCHANGED vars

-----------------------------------------------------------------------------
(* vote *)

\* vote without the check of an earlier Vote record
VoteResultNoDuplicateCheck(voter, proposal_id, amount) ==
    IF amount <= 0 THEN "InvalidVote"
    ELSE IF proposal_id \notin DOMAIN proposals THEN "InvalidProposal"
    ELSE IF now > proposals[proposal_id].deadline \/ ~proposals[proposal_id].active
         THEN "ProposalExpired"
    ELSE IF ~Has(tokenConfig) THEN "NotInitialised"
    ELSE IF ~IsTokenContract(tokenConfig[1].admin) THEN "HostError"
    ELSE IF balances[voter] < amount THEN "InsufficientTokens"
    ELSE "Ok"

\* vote with the token configuration loaded before any other check
VoteResultConfigFirst(voter, proposal_id, amount) ==
    IF ~Has(tokenConfig) THEN "NotInitialised"
    ELSE IF amount <= 0 THEN "InvalidVote"
    ELSE IF proposal_id \notin DOMAIN proposals THEN "InvalidProposal"
    ELSE IF now > proposals[proposal_id].deadline \/ ~proposals[proposal_id].active
         THEN "ProposalExpired"
    ELSE IF <<proposal_id, voter>> \in DOMAIN votes THEN "AlreadyVoted"
    ELSE IF ~IsTokenContract(tokenConfig[1].admin) THEN "HostError"
    ELSE IF balances[voter] < amount THEN "InsufficientTokens"
    ELSE "Ok"

\* the checks of vote, in the order the code makes them
VoteResult(voter, proposal_id, amount) ==
    IF amount <= 0 THEN "InvalidVote"
    ELSE IF proposal_id \notin DOMAIN proposals THEN "InvalidProposal"
    ELSE IF now > proposals[proposal_id].deadline \/ ~proposals[proposal_id].active
         THEN "ProposalExpired"
    ELSE IF <<proposal_id, voter>> \in DOMAIN votes THEN "AlreadyVoted"
    ELSE IF ~Has(tokenConfig) THEN "NotInitialised"
    ELSE IF ~IsTokenContract(tokenConfig[1].admin) THEN "HostError"
    ELSE IF balances[voter] < amount THEN "InsufficientTokens"
    ELSE IF Transfer(balances, voter, DaoAddr, amount) = << >> THEN "HostError"
    ELSE "Ok"

AddVote(proposal, is_yes, amount) ==
    IF is_yes THEN [proposal EXCEPT !.yes_votes = @ + amount]
    ELSE [proposal EXCEPT !.no_votes = @ + amount]

LockedAmount(voter) ==
    IF voter \in DOMAIN lockedTokens THEN lockedTokens[voter] ELSE 0

\* the lock overwritten with the amount of this vote
LockAfterVoteOverwrites(voter, amount) == amount

LockAfterVote(voter, amount) == LockedAmount(voter) + amount

Vote(voter, proposal_id, is_yes, amount) ==
    /\ IF VoteResult(voter, proposal_id, amount) = "Ok"
       THEN /\ balances' = Transfer(balances, voter, DaoAddr, amount)[1]
            /\ votes' = Put(votes, <<proposal_id, voter>>,
                            [voter |-> voter, amount |-> amount, is_yes |-> is_yes])
            /\ proposals' = Put(proposals, proposal_id,
                                AddVote(proposals[proposal_id], is_yes, amount))
            /\ lockedTokens' = Put(lockedTokens, voter, LockAfterVote(voter, amount))
            /\ castSince' = [castSince EXCEPT ![voter] = @ + amount]
            /\ votedPairs' = votedPairs \cup {<<voter, proposal_id>>}
       ELSE UNCHANGED <<balances, votes, proposals, lockedTokens, castSince, votedPairs>>
    /\ UNCHANGED <<tokenConfig, proposalCount, now, issued, tallied, tallyOut, granted>>
    /\ Counted

-----------------------------------------------------------------------------
(* tally_proposal *)

QuorumThreshold(supply) == (supply * QuorumPercent) \div 100

\* the deadline itself taken as closed
TallyResultAtDeadline(proposal_id) ==
    IF proposal_id \notin DOMAIN proposals THEN "InvalidProposal"
    ELSE IF now < proposals[proposal_id].deadline THEN "VotingNotClosed"
    ELSE IF ~Has(tokenConfig) THEN "NotInitialised"
    ELSE "Ok"

TallyResult(proposal_id) ==
    IF proposal_id \notin DOMAIN proposals THEN "InvalidProposal"
    ELSE IF now <= proposals[proposal_id].deadline THEN "VotingNotClosed"
    ELSE IF ~Has(tokenConfig) THEN "NotInitialised"
    ELSE "Ok"

\* a tie counted as a pass
PassedOnTie(proposal, supply) ==
    IF proposal.yes_votes + proposal.no_votes <= (supply * QuorumPercent) \div 100
    THEN FALSE
    ELSE proposal.yes_votes >= proposal.no_votes

\* the boolean a successful tally_proposal returns
Passed(proposal, supply) ==
    IF proposal.yes_votes + proposal.no_votes <= QuorumThreshold(supply)
    THEN FALSE
    ELSE proposal.yes_votes > proposal.no_votes

Close(proposal) == [proposal EXCEPT !.active = FALSE]

TallyProposal(proposal_id) ==
    /\ IF TallyResult(proposal_id) = "Ok"
       THEN /\ proposals' = Put(proposals, proposal_id, Close(proposals[proposal_id]))
            /\ tallied' = tallied \cup {proposal_id}
            /\ tallyOut' = [tallyOut EXCEPT ![proposal_id] =
                              @ \cup {Passed(proposals[proposal_id],
                                             tokenConfig[1].total_supply)}]
       ELSE UNCHANGED <<proposals, tallied, tallyOut>>
    /\ UNCHANGED <<tokenConfig, proposalCount, votes, lockedTokens, balances, now,
                   issued, castSince, votedPairs, granted>>
    /\ Counted

-----------------------------------------------------------------------------
(* unlock_tokens *)

UnlockResult(voter) ==
    IF LockedAmount(voter) = 0 THEN "Ok"
    ELSE IF ~Has(tokenConfig) THEN "NotInitialised"
    ELSE IF ~IsTokenContract(tokenConfig[1].admin) THEN "HostError"
    ELSE IF Transfer(balances, DaoAddr, voter, LockedAmount(voter)) = << >> THEN "HostError"
    ELSE "Ok"

UnlockTokens(voter) ==
    /\ IF UnlockResult(voter) = "Ok" /\ LockedAmount(voter) # 0
       THEN /\ balances' = Transfer(balances, DaoAddr, voter, LockedAmount(voter))[1]
            /\ lockedTokens' = Remove(lockedTokens, voter)
       ELSE UNCHANGED <<balances, lockedTokens>>
    /\ castSince' = IF UnlockResult(voter) = "Ok"
                    THEN [castSince EXCEPT ![voter] = 0] ELSE castSince
    /\ UNCHANGED <<tokenConfig, proposalCount, proposals, votes, now,
                   issued, votedPairs, tallied, tallyOut, granted>>
    /\ Counted

-----------------------------------------------------------------------------
(* The ledger clock *)

Tick ==
    /\ now < MaxTime
    /\ now' = now + 1
    /\ UNCHANGED <<contractState, history, calls>>

-----------------------------------------------------------------------------
(* Specification *)

Init ==
    /\ tokenConfig = << >>
    /\ proposalCount = << >>
    /\ proposals = Empty
    /\ votes = Empty
    /\ lockedTokens = Empty
    /\ balances = [a \in Addresses |-> IF a \in AdminChoices THEN Treasury ELSE 0]
    /\ now = 0
    /\ issued = << >>
    /\ castSince = [v \in Members |-> 0]
    /\ votedPairs = {}
    /\ tallied = {}
    /\ tallyOut = [i \in ProposalIds |-> {}]
    /\ granted = [m \in Members |-> 0]
    /\ calls = 0

Next ==
    \/ \E i \in InitInputs : Initialise(i[1], i[2], i[3])
    \/ \E c \in CreateInputs : CreateProposal(c[1], c[2], c[3], c[4])
    \/ \E proposal_id \in ProposalIds : GetProposal(proposal_id)
    \/ ListProposals
    \/ \E account \in Members : Balance(account)
    \/ TotalSupply
    \/ \E v \in VoteInputs, proposal_id \in ProposalIds :
          Vote(v[1], proposal_id, v[2], v[3])
    \/ \E proposal_id \in ProposalIds : TallyProposal(proposal_id)
    \/ \E voter \in Members : UnlockTokens(voter)
    \/ Tick

Spec == Init /\ [][Next]_vars

\* the same contract driven by the calls of test.rs
TestNext ==
    \/ \E i \in TestInitInputs : Initialise(i[1], i[2], i[3])
    \/ \E c \in TestCreateInputs : CreateProposal(c[1], c[2], c[3], c[4])
    \/ \E proposal_id \in ProposalIds : GetProposal(proposal_id)
    \/ ListProposals
    \/ \E account \in Members : Balance(account)
    \/ TotalSupply
    \/ \E v \in TestVoteInputs, proposal_id \in ProposalIds :
          Vote(v[1], proposal_id, v[2], v[3])
    \/ \E proposal_id \in ProposalIds : TallyProposal(proposal_id)
    \/ \E voter \in Members : UnlockTokens(voter)
    \/ Tick

TestSpec == Init /\ [][TestNext]_vars

-----------------------------------------------------------------------------
(* Shorthands of the claims *)

\* voting on the proposal is open: it is active and its deadline has not passed
Open(proposal_id) ==
    /\ proposal_id \in DOMAIN proposals
    /\ proposals[proposal_id].active
    /\ now <= proposals[proposal_id].deadline

\* the token ledger the contract resolves exists: initialised with a token contract as admin
LedgerResolves == Has(tokenConfig) /\ IsTokenContract(tokenConfig[1].admin)

-----------------------------------------------------------------------------
(* C1 *)

\* C1: every successful create_proposal returns an id above every id returned
\* before (1 for the first), and get_proposal on it then yields that id,
\* active, no votes, and the title, description, deadline and creator passed.
C1_FreshIncreasingIds ==
    [][\A c \in AllCreateInputs :
         (CreateResult(c[4]) = "Ok" /\ CreateProposal(c[1], c[2], c[3], c[4])) =>
            LET new_id == NextId IN
            /\ issued' = Append(issued, new_id)
            /\ \A i \in 1 .. Len(issued) : issued[i] < new_id
            /\ (issued = << >> => new_id = 1)
            /\ new_id \in DOMAIN proposals'
            /\ proposals'[new_id] =
                  [id |-> new_id, title |-> c[2], description |-> c[3],
                   deadline |-> c[4], yes_votes |-> 0, no_votes |-> 0,
                   creator |-> c[1], active |-> TRUE]]_vars

-----------------------------------------------------------------------------
(* C2 *)

SecondVoteRefused ==
    \A v \in AllVoteInputs, p \in ProposalIds :
        <<v[1], p>> \in votedPairs =>
            VoteResult(v[1], p, v[3]) =
                IF v[3] = 0 THEN "InvalidVote"
                ELSE IF ~Open(p) THEN "ProposalExpired"
                ELSE "AlreadyVoted"

-----------------------------------------------------------------------------
(* C3 *)

LocksMatchVotes ==
    \A voter \in Members :
        /\ LockedAmount(voter) = castSince[voter]
        /\ castSince[voter] = 0 => voter \notin DOMAIN lockedTokens

\* C3: LockedTokens(voter) is the sum of the voter's successful votes since the
\* voter's last unlock_tokens (absent when there is none), and a successful
\* vote of amount a lowers the voter's balance by exactly a.
C3_Conservation ==
    [][/\ LocksMatchVotes
       /\ LocksMatchVotes'
       /\ votedPairs' # votedPairs =>
            \A v \in AllVoteInputs, p \in ProposalIds :
                (VoteResult(v[1], p, v[3]) = "Ok" /\ Vote(v[1], p, v[2], v[3])) =>
                    balances'[v[1]] = balances[v[1]] - v[3]]_vars

\* a voter holds two votes at once, 100 tokens locked in all
C3_Witness ==
    \E voter \in Members :
        /\ castSince[voter] = 100 * TokenUnit
        /\ LockedAmount(voter) = 100 * TokenUnit
        /\ \A p \in ProposalIds : <<voter, p>> \in votedPairs

-----------------------------------------------------------------------------
(* C4 *)

\* the outcome the quorum rule gives, without the division: the votes reach
\* above floor(supply * 51 / 100) exactly when 100 * votes > supply * 51
QuorumOutcome(yes, no, supply) ==
    IF 100 * (yes + no) <= supply * 51 THEN FALSE ELSE yes > no

\* what tally_proposal returns in this state wherever it succeeds
TallyFollowsQuorumRule ==
    \A p \in ProposalIds :
        TallyResult(p) = "Ok" =>
            Passed(proposals[p], tokenConfig[1].total_supply) =
                QuorumOutcome(proposals[p].yes_votes, proposals[p].no_votes,
                              tokenConfig[1].total_supply)

-----------------------------------------------------------------------------
(* C5 *)

\* C5: unlock_tokens succeeds; with nothing locked it changes no balance and no
\* record; with a lock L it pays the voter exactly L out of the contract's
\* balance and removes the LockedTokens record, so that a second call finds
\* nothing locked.
C5_Release ==
    [][vars' # vars =>
         \A voter \in Members :
            /\ UnlockResult(voter) = "Ok"
            /\ (LockedAmount(voter) = 0 /\ UnlockTokens(voter)) =>
                  UNCHANGED contractState
            /\ (LockedAmount(voter) # 0 /\ UnlockTokens(voter)) =>
                  /\ balances'[voter] = balances[voter] + LockedAmount(voter)
                  /\ balances'[DaoAddr] = balances[DaoAddr] - LockedAmount(voter)
                  /\ voter \notin DOMAIN lockedTokens'
                  /\ LockedAmount(voter)' = 0
                  /\ UnlockResult(voter)' = "Ok"
                  /\ UNCHANGED <<tokenConfig, proposalCount, proposals, votes>>]_vars

\* a voter who has voted and has been paid back in full, with no lock left
C5_Witness ==
    \E voter \in Members :
        /\ \E p \in ProposalIds : <<voter, p>> \in votedPairs
        /\ voter \notin DOMAIN lockedTokens
        /\ balances[voter] = MemberGrant
        /\ balances[DaoAddr] = 0

-----------------------------------------------------------------------------
(* C6 *)

EarlyTallyRefused ==
    \A p \in DOMAIN proposals :
        /\ now <= proposals[p].deadline => TallyResult(p) = "VotingNotClosed"
        /\ TallyResult(p) = "Ok" => now > proposals[p].deadline

\* C6: tally_proposal on an existing proposal at a time now <= deadline fails
\* with VotingNotClosed and leaves the proposal as it is; it succeeds only when
\* now > deadline.
C6_TallyOnlyAfterDeadline ==
    [][vars' # vars =>
         /\ EarlyTallyRefused
         /\ EarlyTallyRefused'
         /\ \A p \in DOMAIN proposals :
              now <= proposals[p].deadline => ~TallyProposal(p)]_vars

\* a proposal with votes on it, at its deadline, whose tally is refused
C6_Witness ==
    \E p \in DOMAIN proposals :
        /\ now = proposals[p].deadline
        /\ proposals[p].yes_votes + proposals[p].no_votes > 0
        /\ TallyResult(p) = "VotingNotClosed"

-----------------------------------------------------------------------------
(* C7 *)

\* C7: in every step the yes_votes and no_votes of every proposal do not
\* decrease, they change only while the proposal is active and now <= deadline,
\* and a proposal on which a tally_proposal has succeeded is inactive from then on.
C7_VotesGrowOnlyWhileOpen ==
    [][\A p \in DOMAIN proposals :
         /\ p \in DOMAIN proposals'
         /\ proposals'[p].yes_votes >= proposals[p].yes_votes
         /\ proposals'[p].no_votes >= proposals[p].no_votes
         /\ (proposals'[p].yes_votes # proposals[p].yes_votes
               \/ proposals'[p].no_votes # proposals[p].no_votes) => Open(p)
         /\ p \in tallied => ~proposals[p].active /\ ~proposals'[p].active]_vars

-----------------------------------------------------------------------------
(* C8 *)

\* C8: no call that returns a DAOError changes TokenConfig, ProposalCount, a
\* Proposal, a Vote, a LockedTokens record or a token balance.
C8_FailuresChangeNothing ==
    [][contractState' # contractState =>
         /\ \A i \in InitInputs :
              InitialiseResult(i[1], i[2], i[3]) \in Errors => ~Initialise(i[1], i[2], i[3])
         /\ \A c \in CreateInputs :
              CreateResult(c[4]) \in Errors => ~CreateProposal(c[1], c[2], c[3], c[4])
         /\ \A p \in ProposalIds :
              get_proposal(p) = << >> => ~GetProposal(p)
         /\ \A v \in VoteInputs, p \in ProposalIds :
              VoteResult(v[1], p, v[3]) \in Errors => ~Vote(v[1], p, v[2], v[3])
         /\ \A p \in ProposalIds :
              TallyResult(p) \in Errors => ~TallyProposal(p)
         /\ \A voter \in Members :
              UnlockResult(voter) \in Errors => ~UnlockTokens(voter)]_vars

\* a state with a proposal count and votes to lose, in which initialise,
\* create_proposal, vote and tally_proposal all fail for some argument
C8_Witness ==
    /\ Has(tokenConfig)
    /\ UnwrapOr(proposalCount, 0) > 0
    /\ DOMAIN votes # {}
    /\ \E i \in InitInputs : InitialiseResult(i[1], i[2], i[3]) = "AlreadyInitialised"
    /\ \E c \in CreateInputs : CreateResult(c[4]) = "ProposalExpired"
    /\ \E v \in VoteInputs, p \in ProposalIds :
          VoteResult(v[1], p, v[3]) = "InsufficientTokens"
    /\ \E p \in ProposalIds : TallyResult(p) = "VotingNotClosed"

-----------------------------------------------------------------------------
(* C9 *)

\* C9: a vote on an existing open proposal with a positive amount above the
\* voter's balance fails with InsufficientTokens (the ledger being resolvable).
C9_InsufficientTokens ==
    \A v \in AllVoteInputs, p \in ProposalIds :
        (LedgerResolves /\ Open(p) /\ v[3] > 0 /\ v[3] > balances[v[1]]) =>
            VoteResult(v[1], p, v[3]) = "InsufficientTokens"

-----------------------------------------------------------------------------
(* C10 *)

\* C10: with three members of 100 tokens each (supply 300), a proposal that got
\* 60 yes and 40 no and is tallied after its deadline returns true and is closed.
C10_TestTallyPasses ==
    \A p \in tallied :
        (/\ Has(tokenConfig)
         /\ tokenConfig[1].total_supply = 300 * TokenUnit
         /\ proposals[p].yes_votes = 60 * TokenUnit
         /\ proposals[p].no_votes = 40 * TokenUnit) =>
            /\ tallyOut[p] = {TRUE}
            /\ ~proposals[p].active

-----------------------------------------------------------------------------
(* C11 *)

\* C11: unlock_tokens pays nothing back to a voter while a proposal that voter
\* has voted on is still within its voting period (now <= deadline).
C11_UnlockOnlyAfterDeadline ==
    [][\A voter \in Members :
         (LockedAmount(voter) # 0 /\ UnlockTokens(voter)
            /\ balances'[voter] > balances[voter]) =>
               \A p \in DOMAIN proposals :
                  <<p, voter>> \in DOMAIN votes => now > proposals[p].deadline]_vars

-----------------------------------------------------------------------------
(* C12 *)

FiveVoteErrors == {"InvalidVote", "InvalidProposal", "ProposalExpired",
                   "AlreadyVoted", "InsufficientTokens"}

\* C12 as stated: a vote call that returns either succeeds or fails with one of
\* InvalidVote, InvalidProposal, ProposalExpired, AlreadyVoted, InsufficientTokens.
C12_FiveKinds ==
    \A v \in AllVoteInputs, p \in ProposalIds :
        VoteResult(v[1], p, v[3]) # "HostError" =>
            VoteResult(v[1], p, v[3]) \in FiveVoteErrors \cup {"Ok"}

\* how a vote call ends when no token configuration is stored, and when the
\* stored admin is not the token contract
VoteKinds ==
    \A v \in AllVoteInputs, p \in ProposalIds :
        LET r == VoteResult(v[1], p, v[3])
            reachesLedger == /\ v[3] > 0
                             /\ Open(p)
                             /\ <<p, v[1]>> \notin DOMAIN votes
        IN  /\ r \in FiveVoteErrors \cup {"NotInitialised", "Ok", "HostError"}
            /\ r = "NotInitialised" <=> (reachesLedger /\ ~Has(tokenConfig))
            /\ r = "HostError" <=> (reachesLedger /\ Has(tokenConfig) /\ ~LedgerResolves)
            /\ r \in {"Ok", "InsufficientTokens"} => LedgerResolves

\* C12 amended: a vote call succeeds, or is rolled back by a trap of the token
\* client (exactly when it reaches the ledger and the stored admin is not the
\* token contract), or fails with one of six kinds: the five of the claim and
\* NotInitialised, which is returned exactly when the amount is positive, the
\* proposal exists and is open, the voter has no vote on it and no TokenConfig
\* is stored; a vote that fails changes nothing.
C12_SixKinds ==
    [][vars' # vars =>
         /\ VoteKinds
         /\ VoteKinds'
         /\ \A v \in AllVoteInputs, p \in ProposalIds :
              VoteResult(v[1], p, v[3]) = "NotInitialised" => ~Vote(v[1], p, v[2], v[3])]_vars

\* a proposal created before initialise is open and a vote on it returns NotInitialised
C12_Witness ==
    \E v \in AllVoteInputs, p \in ProposalIds :
        /\ Open(p)
        /\ p \in DOMAIN proposals
        /\ ~Has(tokenConfig)
        /\ VoteResult(v[1], p, v[3]) = "NotInitialised"

-----------------------------------------------------------------------------
(* C13 *)

CreateFollowsDeadline ==
    \A c \in AllCreateInputs :
        CreateResult(c[4]) = IF c[4] <= now THEN "ProposalExpired" ELSE "Ok"

\* C13: create_proposal with deadline <= now fails with ProposalExpired and
\* changes neither ProposalCount nor any Proposal record nor any other state;
\* with deadline > now it succeeds, stores the proposal and advances the count.
C13_CreateDeadline ==
    [][vars' # vars =>
         /\ CreateFollowsDeadline
         /\ CreateFollowsDeadline'
         /\ \A c \in AllCreateInputs :
              /\ c[4] <= now => ~CreateProposal(c[1], c[2], c[3], c[4])
              /\ (c[4] > now /\ CreateProposal(c[1], c[2], c[3], c[4])) =>
                    /\ proposalCount' = <<NextId>>
                    /\ NextId \in DOMAIN proposals'
                    /\ issued' = Append(issued, NextId)]_vars

\* a proposal has been created, and now one create input is past its deadline
\* while another is still ahead of the clock
C13_Witness ==
    /\ issued # << >>
    /\ now > 0
    /\ \E c \in CreateInputs : c[4] <= now /\ CreateResult(c[4]) = "ProposalExpired"
    /\ \E c \in CreateInputs : c[4] > now /\ CreateResult(c[4]) = "Ok"

-----------------------------------------------------------------------------
(* C14 *)

AllInitInputs == InitInputs \cup TestInitInputs

LaterInitialiseRefused ==
    Has(tokenConfig) =>
        \A i \in AllInitInputs : InitialiseResult(i[1], i[2], i[3]) = "AlreadyInitialised"

\* C14: initialise succeeds only when no TokenConfig is stored; once one is
\* stored, every initialise fails with AlreadyInitialised and changes nothing,
\* and the stored total_supply and admin never change again.
C14_InitialiseOnce ==
    [][vars' # vars =>
         /\ LaterInitialiseRefused
         /\ LaterInitialiseRefused'
         /\ Has(tokenConfig) => tokenConfig' = tokenConfig
         /\ \A i \in AllInitInputs :
              (Initialise(i[1], i[2], i[3]) /\ contractState' # contractState) =>
                 /\ ~Has(tokenConfig)
                 /\ tokenConfig' = <<[total_supply |-> Len(i[2]) * 100 * TokenUnit,
                                      admin |-> i[1]]>>
                 /\ proposals' = proposals]_vars

\* initialised, with a proposal and a positive count, and an initialise naming
\* another admin that still has the funds to distribute is refused
C14_Witness ==
    /\ Has(tokenConfig)
    /\ UnwrapOr(proposalCount, 0) > 0
    /\ DOMAIN proposals # {}
    /\ \E i \in InitInputs :
          /\ i[1] # tokenConfig[1].admin
          /\ Distribute(balances, i[1], i[2]) # << >>
          /\ InitialiseResult(i[1], i[2], i[3]) = "AlreadyInitialised"

-----------------------------------------------------------------------------
(* C15 *)

\* C15: a Proposal record exists for exactly the ids 1 .. ProposalCount, and
\* list_proposals returns ProposalCount proposals in ascending id order, one
\* for every successful create_proposal.
C15_RecordsMatchCount ==
    /\ DOMAIN proposals = 1 .. UnwrapOr(proposalCount, 0)
    /\ Len(list_proposals) = UnwrapOr(proposalCount, 0)
    /\ Len(list_proposals) = Len(issued)
    /\ \A i \in 1 .. Len(list_proposals) : list_proposals[i].id = i

-----------------------------------------------------------------------------
(* C16 *)

\* the keys of the Vote records of one proposal in one direction
VoteKeys(proposal_id, is_yes) ==
    {k \in DOMAIN votes : k[1] = proposal_id /\ votes[k].is_yes = is_yes}

RECURSIVE SumAmounts(_)
SumAmounts(keys) ==
    IF keys = {} THEN 0
    ELSE LET k == CHOOSE x \in keys : TRUE
         IN  votes[k].amount + SumAmounts(keys \ {k})

\* C16: for every proposal, yes_votes is the sum of the amounts of its Vote
\* records with is_yes = true and no_votes the sum of those with is_yes = false.
C16_AccumulatorsAreSums ==
    \A p \in DOMAIN proposals :
        /\ proposals[p].yes_votes = SumAmounts(VoteKeys(p, TRUE))
        /\ proposals[p].no_votes = SumAmounts(VoteKeys(p, FALSE))

-----------------------------------------------------------------------------
(* C17 *)

\* C17: a Vote record, once stored for a (proposal id, voter) pair, is never
\* changed and never removed by any later call, and a step stores at most one
\* new record, that of the voter and pair of the vote call.
C17_VotesImmutable ==
    [][votes' # votes =>
         /\ \A k \in DOMAIN votes : k \in DOMAIN votes' /\ votes'[k] = votes[k]
         /\ Cardinality(DOMAIN votes' \ DOMAIN votes) = 1
         /\ \A k \in DOMAIN votes' : votes'[k].voter = k[2] /\ votes'[k].amount > 0]_vars

\* a Vote record is still stored after its voter has unlocked and its proposal
\* has been tallied
C17_Witness ==
    \E k \in DOMAIN votes :
        /\ k[2] \notin DOMAIN lockedTokens
        /\ k[1] \in tallied
        /\ <<k[2], k[1]>> \in votedPairs

-----------------------------------------------------------------------------
(* C18 *)

\* C18: once a tally_proposal on a proposal has succeeded with result r, a
\* tally_proposal on it succeeds again in every later state, with the same r,
\* and the stored proposal stays closed.
C18_RetallySame ==
    \A p \in tallied :
        /\ TallyResult(p) = "Ok"
        /\ ~proposals[p].active
        /\ tallyOut[p] = {Passed(proposals[p], tokenConfig[1].total_supply)}

-----------------------------------------------------------------------------
(* C19 *)

RECURSIVE SumLocked(_)
SumLocked(voters) ==
    IF voters = {} THEN 0
    ELSE LET v == CHOOSE x \in voters : TRUE
         IN  LockedAmount(v) + SumLocked(voters \ {v})

CustodyMatchesLocks ==
    /\ balances[DaoAddr] = SumLocked(Members)
    /\ \A m \in Members :
          /\ balances[m] + LockedAmount(m) = granted[m]
          /\ LockedAmount(m) <= balances[DaoAddr]
          /\ UnlockResult(m) = "Ok"

\* C19: the contract's token balance is the sum of LockedTokens over all
\* voters, and every member's balance plus LockedTokens is what initialise
\* transferred to that member; so unlock_tokens always finds the funds and
\* leaves the member with the whole allocation.
C19_TokenConservation ==
    [][vars' # vars =>
         /\ CustodyMatchesLocks
         /\ CustodyMatchesLocks'
         /\ \A m \in Members :
              (LockedAmount(m) # 0 /\ UnlockTokens(m)) => balances'[m] = granted[m]]_vars

\* two members have voted, one of them has unlocked and holds the whole grant
\* again, and the contract holds exactly the other's lock
C19_Witness ==
    \E a \in Members, b \in Members :
        /\ a # b
        /\ \E p \in ProposalIds : <<a, p>> \in votedPairs
        /\ LockedAmount(a) = 0
        /\ balances[a] = MemberGrant
        /\ LockedAmount(b) > 0
        /\ balances[DaoAddr] = LockedAmount(b)

-----------------------------------------------------------------------------
(* C20 *)

====
